---- MODULE Spec2Model ----
(***************************************************************************)
(* State-machine model of ProfessionalTradingSystem                        *)
(* (professional_trading_system/static/js/main.js).                        *)
(*                                                                         *)
(* The program is single threaded: every handler runs to completion up to  *)
(* its next await.  The only suspension points are the fetch round trips,  *)
(* so an action of the model is either "a handler runs until it has issued *)
(* its fetch" or "a response arrives and the continuation of the awaiting  *)
(* handler runs to its end (or to its next fetch)".                        *)
(*                                                                         *)
(* Modelling conventions                                                   *)
(*  - `el?.textContent = v` is read as "assign when the element exists".   *)
(*  - The page markup is the documented one: every selector the code       *)
(*    queries resolves to an element, and no element id shadows a global.  *)
(*  - The server answers with JSON of the documented shapes, or the fetch  *)
(*    fails (network error or undecodable body).                           *)
(***************************************************************************)
EXTENDS Integers, Sequences, FiniteSets, TLC

\* ------------------------------------------------------------------ bounds
\* at most this many fetches of one category outstanding at a time
MaxPerCat == 2
\* at most this many fetches outstanding at a time, all categories together
MaxInFlight == 4
\* at most this many loadInitialData batches outstanding at a time
MaxBatches == 1
\* longest signals / trades / positions list the server sends
MaxItems == 1
\* longest signals / trades list the server sends when the lists on display
\* are studied
MaxListed == 11
\* longest symbol list the server sends when the ticker feed is studied
MaxSymbols == 6

\* ------------------------------------------------------------- vocabulary
Null == "null"
NoTf == "none"
SymbolIds == {"A", "B"}
Timeframes == {"1h", "4h"}
Cats == {"portfolio", "symbols", "signals", "trades", "candles", "realTime"}
BatchCats == <<"portfolio", "symbols", "signals", "trades">>

\* a Symbol as the server sends it: A carries a timeframe, B carries none
SymRec(s) == [symbol |-> s, timeframe |-> IF s = "A" THEN "4h" ELSE NoTf]
SymbolLists == {<<>>, <<SymRec("A"), SymRec("B")>>, <<SymRec("B")>>}
ItemLists == {[i \in 1..n |-> "item"] : n \in 0..MaxItems}
\* portfolio and realTime start as null (present = FALSE)
NoPortfolio == [present |-> FALSE, positions |-> <<>>]
PortfolioPayloads == {[present |-> TRUE, positions |-> l] : l \in ItemLists}
NoRealTime == [present |-> FALSE]
RealTimePayloads == {[present |-> TRUE]}
\* the candle series the server holds for a symbol and a timeframe
SeriesOf(sym, tf) ==
    CASE sym = "A" /\ tf = "1h" ->
            <<[open |-> 100, close |-> 110], [open |-> 110, close |-> 90]>>
      [] sym = "A" /\ tf # "1h" -> <<[open |-> 100, close |-> 120]>>
      [] sym # "A" /\ tf = "1h" -> <<[open |-> 50, close |-> 60]>>
      [] OTHER -> <<[open |-> 0, close |-> 0]>>
Payloads(c) ==
    CASE c = "portfolio" -> PortfolioPayloads
      [] c = "symbols" -> SymbolLists
      [] c = "signals" -> ItemLists
      [] c = "trades" -> ItemLists

\* signals.slice(0, 10) / trades.slice(0, 10)
ListCap == 10
Min(a, b) == IF a < b THEN a ELSE b
slice(list, from, to) == SubSeq(list, from + 1, Min(to, Len(list)))

\* long answers of the server
LongLists == {[i \in 1..n |-> "item"] : n \in {0, MaxListed - 1, MaxListed}}
TickerNames == <<"A", "B", "C", "D", "E", "F", "G">>
TickerLists ==
    {[i \in 1..n |-> SymRec(TickerNames[i])] : n \in {0, MaxSymbols - 1, MaxSymbols}}

\* the renderers in the order updateUI calls them
FullDispatch ==
    <<"renderHeader", "renderSymbols", "renderMarketTicker", "renderPortfolioStats",
      "renderSignals", "renderTrades", "renderPositions", "renderChart">>

VARIABLES
    data,              \* this.data
    selectedSymbol,    \* this.selectedSymbol
    selectedTimeframe, \* this.selectedTimeframe
    view,              \* what the page shows (DOM regions the renderers write)
    inflight,          \* per category, the outstanding fetches in issue order
    batches,           \* the Promise.all of each running loadInitialData
    phase,             \* position of init()
    timers,            \* interval timers created by startRealTimeUpdates
    loop,              \* per polling loop, how its last completed cycle ended
    last               \* what the last step did (history variable)

vars ==
    <<data, selectedSymbol, selectedTimeframe, view, inflight, batches, phase, timers,
      loop, last>>

\* what a step writes into .live-change when it does not draw the chart
NoChange == [kind |-> "none", hundredths |-> 0, style |-> "none"]

\* ------------------------------------------------- the running handler
\* A handler's run is folded over a working record: the store and the page
\* as the handler sees them, the exception in flight (threw) and what the
\* run has done so far.  An operation applied while an exception is in
\* flight is skipped, as the code after a throw is.
Work(act, failed) ==
    [d |-> data, sel |-> selectedSymbol, tf |-> selectedTimeframe, v |-> view,
     loop |-> loop, act |-> act, failed |-> failed, threw |-> failed, raised |-> "none",
     dispatch |-> <<>>, rendered |-> {}, drew |-> FALSE, notes |-> <<>>, slot |-> "none",
     stale |-> FALSE, issued |-> {}, change |-> NoChange]

Ids(symbols) == [i \in 1..Len(symbols) |-> symbols[i].symbol]
Range(f) == {f[i] : i \in DOMAIN f}

Raise(w, who) == [w EXCEPT !.threw = TRUE, !.raised = who]

\* a function that writes the page has been entered
Enter(w, who) == [w EXCEPT !.rendered = @ \cup {who}]

\* writes balance, P&L, win rate and the selection labels; every field has
\* a `?? 0` / `|| '—'` default, so it completes for any store.  Of what it
\* writes, the view keeps the selected-symbol label.
renderHeader(w) ==
    IF w.threw THEN w ELSE Enter([w EXCEPT !.v.hdrSym = w.sel], "renderHeader")

renderSymbols(w) ==
    IF w.threw THEN w
    ELSE Enter([w EXCEPT !.v.buttons = Ids(w.d.symbols),
                         !.v.active = IF w.sel \in Range(Ids(w.d.symbols))
                                      THEN w.sel ELSE Null],
               "renderSymbols")

updateTradeStats(w) ==
    IF w.threw THEN w ELSE Enter(w, "updateTradeStats")

renderMarketTicker(w) ==
    IF w.threw THEN w
    ELSE updateTradeStats(Enter([w EXCEPT !.v.rows = Ids(w.d.symbols)],
                                "renderMarketTicker"))

renderPortfolioStats(w) ==
    IF w.threw THEN w ELSE Enter(w, "renderPortfolioStats")

\* the item template reads `symbol.timeframe`; no `symbol` is in scope, so
\* building the first item raises a ReferenceError
\* before the first item is appended: the list has been emptied and shows
\* no entry
renderSignals(w) ==
    IF w.threw THEN w
    ELSE LET shown == slice(w.d.signals, 0, ListCap)
             w1 == Enter([w EXCEPT !.v.signals = 0], "renderSignals")
         IN  IF Len(shown) = 0 THEN w1 ELSE Raise(w1, "renderSignals")

renderTrades(w) ==
    IF w.threw THEN w
    ELSE Enter([w EXCEPT !.v.trades = Len(slice(w.d.trades, 0, ListCap))], "renderTrades")

\* the item template reads `position.timeframe`; no `position` is in scope
renderPositions(w) ==
    IF w.threw THEN w
    ELSE LET positions == IF w.d.portfolio.present THEN w.d.portfolio.positions ELSE <<>>
             w1 == Enter(w, "renderPositions")
         IN IF Len(positions) = 0 THEN w1 ELSE Raise(w1, "renderPositions")

\* ((last.close - data[0].open) / data[0].open) * 100 in IEEE arithmetic,
\* as toFixed(2) prints it (in hundredths of a percent), with the classes the
\* two classList.toggle calls leave: NaN is neither >= 0 nor < 0
chartChange(series) ==
    LET open == series[1].open
        diff == series[Len(series)].close - open
        below == (diff < 0 /\ open > 0) \/ (diff > 0 /\ open < 0)
    IN  IF open # 0
        THEN LET twice == (2 * diff * 10000) \div open
             IN  [kind |-> "number", hundredths |-> (twice + 1) \div 2,
                  style |-> IF below THEN "negative" ELSE "positive"]
        ELSE IF diff > 0 THEN [kind |-> "Infinity", hundredths |-> 0, style |-> "positive"]
        ELSE IF diff < 0 THEN [kind |-> "-Infinity", hundredths |-> 0, style |-> "negative"]
        ELSE [kind |-> "NaN", hundredths |-> 0, style |-> "none"]

renderChart(w) ==
    IF w.threw THEN w
    ELSE LET series == IF w.sel = Null THEN <<>> ELSE w.d.market[w.sel]
             w1 == Enter(w, "renderChart")
         IN IF Len(series) = 0 THEN w1
            ELSE [w1 EXCEPT !.v.chart = series, !.drew = TRUE,
                            !.change = chartChange(series)]

\* one renderer of a full dispatch: entered unless an earlier one raised
Step(w, who, after) ==
    IF w.threw THEN w ELSE [after EXCEPT !.dispatch = Append(w.dispatch, who)]

updateUI(w) ==
    LET w1 == Step(w, "renderHeader", renderHeader(w))
        w2 == Step(w1, "renderSymbols", renderSymbols(w1))
        w3 == Step(w2, "renderMarketTicker", renderMarketTicker(w2))
        w4 == Step(w3, "renderPortfolioStats", renderPortfolioStats(w3))
        w5 == Step(w4, "renderSignals", renderSignals(w4))
        w6 == Step(w5, "renderTrades", renderTrades(w5))
        w7 == Step(w6, "renderPositions", renderPositions(w6))
    IN  Step(w7, "renderChart", renderChart(w7))

notify(w, type) ==
    IF w.threw THEN w ELSE [w EXCEPT !.notes = Append(w.notes, type)]

\* the catch block of loadInitialData
CatchInitial(w) ==
    IF w.threw THEN notify([w EXCEPT !.threw = FALSE], "error") ELSE w

\* the catch block of refreshRealTime: console.error only
CatchRealTime(w) ==
    IF w.threw THEN [w EXCEPT !.threw = FALSE] ELSE w

\* Merge as it would be if loadMarketData stored the candles under the
\* symbol selected when the response arrives instead of the one requested
MergeUnderSelection(w, c, sym, payload, stale) ==
    IF w.threw THEN w
    ELSE [w EXCEPT !.d = IF c = "candles"
                         THEN [w.d EXCEPT !.market[IF w.sel = Null THEN sym ELSE w.sel] = payload]
                         ELSE [w.d EXCEPT ![c] = payload],
                   !.slot = IF c = "candles" THEN sym ELSE c,
                   !.stale = stale]

\* Merge as it would be if a load function reset its slot before it awaited:
\* a failed fetch leaves the slot as the constructor made it
MergeClearsOnFailure(w, c, sym, payload, stale) ==
    IF w.threw
    THEN [w EXCEPT !.d = IF c = "candles" THEN [w.d EXCEPT !.market[sym] = <<>>]
                         ELSE IF c = "portfolio" THEN [w.d EXCEPT !.portfolio = NoPortfolio]
                         ELSE IF c = "realTime" THEN [w.d EXCEPT !.realTime = NoRealTime]
                         ELSE [w.d EXCEPT ![c] = <<>>]]
    ELSE [w EXCEPT !.d = IF c = "candles"
                         THEN [w.d EXCEPT !.market[sym] = payload]
                         ELSE [w.d EXCEPT ![c] = payload],
                   !.slot = IF c = "candles" THEN sym ELSE c,
                   !.stale = stale]

\* the assignment that ends a load function; a response that lost an await
\* to a failure never reaches it
Merge(w, c, sym, payload, stale) ==
    IF w.threw THEN w
    ELSE [w EXCEPT !.d = IF c = "candles"
                         THEN [w.d EXCEPT !.market[sym] = payload]
                         ELSE [w.d EXCEPT ![c] = payload],
                   !.slot = IF c = "candles" THEN sym ELSE c,
                   !.stale = stale]

SelectDefault(w) ==
    IF w.threw THEN w
    ELSE IF w.sel = Null /\ Len(w.d.symbols) > 0
         THEN [w EXCEPT !.sel = w.d.symbols[1].symbol,
                        !.tf = IF w.d.symbols[1].timeframe = NoTf
                               THEN "1h" ELSE w.d.symbols[1].timeframe]
         ELSE w

\* writes the live price and change; returns at once while realTime is null
updateRealTimeUI(w) ==
    IF w.threw THEN w ELSE Enter(w, "updateRealTimeUI")

\* a rejection nobody observes any more: the Promise.all it belongs to has
\* already been rejected by an earlier failure
Swallow(w) == [w EXCEPT !.threw = FALSE]

\* ------------------------------------------------ outstanding fetches
NoBatch == 0
Free == [owner |-> "-", pending |-> 0]

\* cont names the code that awaits the response
Fetch(cont, sym, tf, batch, owner) ==
    [cont |-> cont, sym |-> sym, tf |-> tf, batch |-> batch, owner |-> owner,
     stale |-> FALSE]

Outstanding(q) ==
    Len(q["portfolio"]) + Len(q["symbols"]) + Len(q["signals"]) + Len(q["trades"])
        + Len(q["candles"]) + Len(q["realTime"])

Room(q, c) == Len(q[c]) < MaxPerCat /\ Outstanding(q) < MaxInFlight

Push(q, c, f) == [q EXCEPT ![c] = Append(@, f)]

\* the response to the i-th outstanding fetch of c arrives.  When it writes
\* the store, every fetch of the same slot issued before it and still
\* outstanding is from now on older than the stored value (stale).
Take(q, c, i, wrote) ==
    LET old == q[c]
        mark(j) == IF wrote /\ j < i /\ old[j].sym = old[i].sym
                   THEN [old[j] EXCEPT !.stale = TRUE] ELSE old[j]
    IN  [q EXCEPT ![c] = [j \in 1..(Len(old) - 1) |->
                            IF j < i THEN mark(j) ELSE old[j + 1]]]

\* Promise.all rejected: the batch's other fetches still complete and still
\* assign, but nothing waits for them any more
Orphan(q, b) ==
    [c \in Cats |-> [j \in 1..Len(q[c]) |->
        IF q[c][j].cont = "batch" /\ q[c][j].batch = b
        THEN [q[c][j] EXCEPT !.cont = "orphan", !.batch = NoBatch] ELSE q[c][j]]]

Issue(w, cats) == [w EXCEPT !.issued = w.issued \cup cats]

\* the state a handler's run leaves behind
Commit(w, q, b, ph, tm) ==
    /\ data' = w.d
    /\ selectedSymbol' = w.sel
    /\ selectedTimeframe' = w.tf
    /\ view' = w.v
    /\ inflight' = q
    /\ batches' = b
    /\ phase' = ph
    /\ timers' = tm
    /\ loop' = w.loop
    /\ last' = [act |-> w.act, failed |-> w.failed, uncaught |-> w.threw,
                raised |-> w.raised, dispatch |-> w.dispatch, rendered |-> w.rendered,
                drew |-> w.drew,
                notes |-> w.notes, slot |-> w.slot, stale |-> w.stale,
                issued |-> w.issued, change |-> w.change]

ListenersInstalled == phase # "loading"

\* a cycle of a polling loop ends: back to idle, or a failed cycle (backoff)
EndCycle(w, name) == [w EXCEPT !.loop[name] = IF w.failed THEN "backoff" ELSE "idle"]

\* --------------------------------------------------------------- init
Init ==
    /\ data = [portfolio |-> NoPortfolio, symbols |-> <<>>, signals |-> <<>>, trades |-> <<>>,
               market |-> [s \in SymbolIds |-> <<>>], realTime |-> NoRealTime]
    /\ selectedSymbol = Null
    /\ selectedTimeframe = "1h"
    /\ view = [buttons |-> <<>>, rows |-> <<>>, chart |-> <<>>, signals |-> 0, trades |-> 0,
               hdrSym |-> Null, active |-> Null]
    /\ inflight = [c \in Cats |->
                     IF c \in Range(BatchCats)
                     THEN <<Fetch("batch", "-", "-", 1, "init")>> ELSE <<>>]
    /\ batches = [b \in 1..MaxBatches |->
                     IF b = 1 THEN [owner |-> "init", pending |-> 4] ELSE Free]
    /\ phase = "loading"
    /\ timers = [realTime |-> 0, ticker |-> 0]
    /\ loop = [realTime |-> "idle", ticker |-> "idle"]
    /\ last = [act |-> "init", failed |-> FALSE, uncaught |-> FALSE, raised |-> "none",
               dispatch |-> <<>>, rendered |-> {}, drew |-> FALSE, notes |-> <<>>,
               slot |-> "none", stale |-> FALSE, issued |-> Range(BatchCats),
               change |-> NoChange]

\* ----------------------------------------------- init / loadInitialData
\* what runs once loadInitialData has returned: init goes on to
\* setupEventListeners and refreshRealTime, the refresh-all handler notifies
AfterInitial(owner, w, q) ==
    IF owner = "init"
    THEN [w |-> Issue(w, {"realTime"}),
          q |-> Push(q, "realTime", Fetch("initRT", "-", "-", NoBatch, "-")),
          phase |-> "rt"]
    ELSE [w |-> notify(w, "info"), q |-> q, phase |-> phase]

\* loadInitialData after the Promise.all resolved, up to its next await
InitialStage2(owner, w, q) ==
    LET w1 == SelectDefault(w)
    IN  IF w1.sel = Null
        THEN AfterInitial(owner, CatchInitial(updateUI(w1)), q)
        ELSE [w |-> Issue(w1, {"candles"}),
              q |-> Push(q, "candles", Fetch("lidMarket", w1.sel, w1.tf, NoBatch, owner)),
              phase |-> phase]

\* one of the four fetches of a loadInitialData batch completes
BatchFetchDone(c, i, ok, payload) ==
    /\ i \in 1..Len(inflight[c])
    /\ inflight[c][i].cont = "batch"
    /\ LET f == inflight[c][i]
           b == f.batch
           owner == batches[b].owner
           w == Merge(Work("BatchFetchDone", ~ok), c, "-", payload, f.stale)
           q == Take(inflight, c, i, ok)
       IN  IF ~ok
           THEN LET r == AfterInitial(owner, CatchInitial(w), Orphan(q, b))
                IN  Commit(r.w, r.q, [batches EXCEPT ![b] = Free], r.phase, timers)
           ELSE IF batches[b].pending > 1
           THEN Commit(w, q, [batches EXCEPT ![b].pending = @ - 1], phase, timers)
           ELSE LET r == InitialStage2(owner, w, q)
                IN  /\ Len(r.q["candles"]) <= MaxPerCat
                    /\ Commit(r.w, r.q, [batches EXCEPT ![b] = Free], r.phase, timers)

\* a fetch of an already rejected batch completes: loadX still assigns
OrphanDone(c, i, ok, payload) ==
    /\ i \in 1..Len(inflight[c])
    /\ inflight[c][i].cont = "orphan"
    /\ LET f == inflight[c][i]
           w == Swallow(Merge(Work("OrphanDone", ~ok), c, "-", payload, f.stale))
       IN  Commit(w, Take(inflight, c, i, ok), batches, phase, timers)

\* the loadMarketData of loadInitialData completes
InitialMarketDone(i, ok) ==
    /\ i \in 1..Len(inflight["candles"])
    /\ inflight["candles"][i].cont = "lidMarket"
    /\ LET f == inflight["candles"][i]
           w == Merge(Work("InitialMarketDone", ~ok), "candles", f.sym, SeriesOf(f.sym, f.tf), f.stale)
           r == AfterInitial(f.owner, CatchInitial(updateUI(w)),
                             Take(inflight, "candles", i, ok))
       IN  Commit(r.w, r.q, batches, r.phase, timers)

\* InitRealTimeDone as it would be if startRealTimeUpdates were called inside
\* the try block of refreshRealTime
InitRealTimeDoneInsideTry(i, ok, payload) ==
    /\ i \in 1..Len(inflight["realTime"])
    /\ inflight["realTime"][i].cont = "initRT"
    /\ LET f == inflight["realTime"][i]
           w == Merge(Work("InitRealTimeDone", ~ok), "realTime", "-", payload, f.stale)
       IN  Commit(CatchRealTime(updateRealTimeUI(w)), Take(inflight, "realTime", i, ok),
                  batches, IF ok THEN "running" ELSE phase,
                  IF ok THEN [realTime |-> timers.realTime + 1, ticker |-> timers.ticker + 1]
                  ELSE timers)

\* the refreshRealTime awaited by init completes; startRealTimeUpdates runs
InitRealTimeDone(i, ok, payload) ==
    /\ i \in 1..Len(inflight["realTime"])
    /\ inflight["realTime"][i].cont = "initRT"
    /\ LET f == inflight["realTime"][i]
           w == Merge(Work("InitRealTimeDone", ~ok), "realTime", "-", payload, f.stale)
       IN  Commit(CatchRealTime(updateRealTimeUI(w)), Take(inflight, "realTime", i, ok),
                  batches, "running",
                  [realTime |-> timers.realTime + 1, ticker |-> timers.ticker + 1])

\* ------------------------------------------------------ polling loops
\* the 5 s interval fires: refreshRealTime up to its fetch
RealTimeTick ==
    /\ timers.realTime > 0
    /\ Room(inflight, "realTime")
    /\ Commit(Issue(Work("RealTimeTick", FALSE), {"realTime"}),
              Push(inflight, "realTime", Fetch("rt", "-", "-", NoBatch, "-")),
              batches, phase, timers)

\* RealTimeDone as it would be if the catch block cleared the interval
RealTimeDoneStopsLoop(i, ok, payload) ==
    /\ i \in 1..Len(inflight["realTime"])
    /\ inflight["realTime"][i].cont = "rt"
    /\ LET f == inflight["realTime"][i]
           w == Merge(Work("RealTimeDone", ~ok), "realTime", "-", payload, f.stale)
       IN  Commit(EndCycle(CatchRealTime(updateRealTimeUI(w)), "realTime"),
                  Take(inflight, "realTime", i, ok), batches, phase,
                  IF ok THEN timers ELSE [timers EXCEPT !.realTime = 0])

RealTimeDone(i, ok, payload) ==
    /\ i \in 1..Len(inflight["realTime"])
    /\ inflight["realTime"][i].cont = "rt"
    /\ LET f == inflight["realTime"][i]
           w == Merge(Work("RealTimeDone", ~ok), "realTime", "-", payload, f.stale)
       IN  Commit(EndCycle(CatchRealTime(updateRealTimeUI(w)), "realTime"),
                  Take(inflight, "realTime", i, ok), batches, phase, timers)

\* TickerTick as it would be if the ticker were scheduled with setTimeout
TickerTickOnce ==
    /\ timers.ticker > 0
    /\ Room(inflight, "symbols")
    /\ Commit(Issue(Work("TickerTick", FALSE), {"symbols"}),
              Push(inflight, "symbols", Fetch("ticker", "-", "-", NoBatch, "-")),
              batches, phase, [timers EXCEPT !.ticker = @ - 1])

\* the 15 s interval fires: refreshTicker up to its fetch
TickerTick ==
    /\ timers.ticker > 0
    /\ Room(inflight, "symbols")
    /\ Commit(Issue(Work("TickerTick", FALSE), {"symbols"}),
              Push(inflight, "symbols", Fetch("ticker", "-", "-", NoBatch, "-")),
              batches, phase, timers)

TickerDone(i, ok, payload) ==
    /\ i \in 1..Len(inflight["symbols"])
    /\ inflight["symbols"][i].cont = "ticker"
    /\ LET f == inflight["symbols"][i]
           w == Merge(Work("TickerDone", ~ok), "symbols", "-", payload, f.stale)
       IN  Commit(EndCycle(renderMarketTicker(w), "ticker"),
                  Take(inflight, "symbols", i, ok), batches, phase, timers)

\* ------------------------------------------------------- user clicks
\* btn.onclick of a symbol button / the click listener of a ticker row:
\* both set the selection and await loadMarketData(symbol, timeframe)
SelectSymbol(act, s) ==
    /\ Room(inflight, "candles")
    /\ LET w == [Work(act, FALSE) EXCEPT !.sel = s]
       IN  Commit(Issue(w, {"candles"}),
                  Push(inflight, "candles", Fetch("select", s, w.tf, NoBatch, "-")),
                  batches, phase, timers)

ClickSymbol(s) ==
    /\ s \in Range(view.buttons)
    /\ SelectSymbol("ClickSymbol", s)

ClickRow(s) ==
    /\ s \in Range(view.rows)
    /\ SelectSymbol("ClickRow", s)

SelectDone(i, ok) ==
    /\ i \in 1..Len(inflight["candles"])
    /\ inflight["candles"][i].cont = "select"
    /\ LET f == inflight["candles"][i]
           w == Merge(Work("SelectDone", ~ok), "candles", f.sym, SeriesOf(f.sym, f.tf), f.stale)
       IN  Commit(updateUI(w), Take(inflight, "candles", i, ok), batches, phase, timers)

\* loadMarketData called by a click handler: without a symbol it returns
\* at once and the handler's rest runs; otherwise the fetch is issued
MarketClick(act, w, cont, rest) ==
    IF w.sel = Null
    THEN Commit(rest, inflight, batches, phase, timers)
    ELSE /\ Room(inflight, "candles")
         /\ Commit(Issue(w, {"candles"}),
                   Push(inflight, "candles", Fetch(cont, w.sel, w.tf, NoBatch, "-")),
                   batches, phase, timers)

ClickTimeframe(tf) ==
    /\ ListenersInstalled
    /\ LET w == [Work("ClickTimeframe", FALSE) EXCEPT !.tf = tf]
       IN  MarketClick("ClickTimeframe", w, "timeframe", renderChart(w))

TimeframeDone(i, ok) ==
    /\ i \in 1..Len(inflight["candles"])
    /\ inflight["candles"][i].cont = "timeframe"
    /\ LET f == inflight["candles"][i]
           w == Merge(Work("TimeframeDone", ~ok), "candles", f.sym, SeriesOf(f.sym, f.tf), f.stale)
       IN  Commit(renderChart(w), Take(inflight, "candles", i, ok), batches, phase, timers)

ClickRefreshMarket ==
    /\ ListenersInstalled
    /\ LET w == Work("ClickRefreshMarket", FALSE)
       IN  MarketClick("ClickRefreshMarket", w, "refreshMarket",
                       notify(renderChart(w), "info"))

RefreshMarketDone(i, ok) ==
    /\ i \in 1..Len(inflight["candles"])
    /\ inflight["candles"][i].cont = "refreshMarket"
    /\ LET f == inflight["candles"][i]
           w == Merge(Work("RefreshMarketDone", ~ok), "candles", f.sym, SeriesOf(f.sym, f.tf), f.stale)
       IN  Commit(notify(renderChart(w), "info"), Take(inflight, "candles", i, ok),
                  batches, phase, timers)

\* ClickRefreshAll as it would be if the handler called init instead of
\* loadInitialData
ClickRefreshAllRunsInit ==
    /\ ListenersInstalled
    /\ \A c \in Range(BatchCats) : Len(inflight[c]) < MaxPerCat
    /\ Outstanding(inflight) + Len(BatchCats) <= MaxInFlight
    /\ \E b \in 1..MaxBatches :
        /\ batches[b] = Free
        /\ \A b2 \in 1..(b - 1) : batches[b2] # Free
        /\ Commit(Issue(Work("ClickRefreshAll", FALSE), Range(BatchCats)),
                  [c \in Cats |-> IF c \in Range(BatchCats)
                                  THEN Append(inflight[c], Fetch("batch", "-", "-", b, "init"))
                                  ELSE inflight[c]],
                  [batches EXCEPT ![b] = [owner |-> "init", pending |-> 4]],
                  phase, timers)

\* refresh-all: loadInitialData up to its Promise.all
ClickRefreshAll ==
    /\ ListenersInstalled
    /\ \A c \in Range(BatchCats) : Len(inflight[c]) < MaxPerCat
    /\ Outstanding(inflight) + Len(BatchCats) <= MaxInFlight
    /\ \E b \in 1..MaxBatches :
        /\ batches[b] = Free
        /\ \A b2 \in 1..(b - 1) : batches[b2] # Free
        /\ Commit(Issue(Work("ClickRefreshAll", FALSE), Range(BatchCats)),
                  [c \in Cats |-> IF c \in Range(BatchCats)
                                  THEN Append(inflight[c], Fetch("batch", "-", "-", b, "refreshAll"))
                                  ELSE inflight[c]],
                  [batches EXCEPT ![b] = [owner |-> "refreshAll", pending |-> 4]],
                  phase, timers)

\* the refresh-signals / -portfolio / -trades / -ticker buttons
ClickRefresh(act, c, cont) ==
    /\ ListenersInstalled
    /\ Room(inflight, c)
    /\ Commit(Issue(Work(act, FALSE), {c}),
              Push(inflight, c, Fetch(cont, "-", "-", NoBatch, "-")),
              batches, phase, timers)

ClickRefreshSignals == ClickRefresh("ClickRefreshSignals", "signals", "refreshSignals")
ClickRefreshPortfolio == ClickRefresh("ClickRefreshPortfolio", "portfolio", "refreshPortfolio")
ClickRefreshTrades == ClickRefresh("ClickRefreshTrades", "trades", "refreshTrades")
ClickRefreshTicker == ClickRefresh("ClickRefreshTicker", "symbols", "refreshTicker")

RefreshSignalsDone(i, ok, payload) ==
    /\ i \in 1..Len(inflight["signals"])
    /\ inflight["signals"][i].cont = "refreshSignals"
    /\ LET f == inflight["signals"][i]
           w == Merge(Work("RefreshSignalsDone", ~ok), "signals", "-", payload, f.stale)
       IN  Commit(notify(renderSignals(w), "info"), Take(inflight, "signals", i, ok),
                  batches, phase, timers)

RefreshPortfolioDone(i, ok, payload) ==
    /\ i \in 1..Len(inflight["portfolio"])
    /\ inflight["portfolio"][i].cont = "refreshPortfolio"
    /\ LET f == inflight["portfolio"][i]
           w == Merge(Work("RefreshPortfolioDone", ~ok), "portfolio", "-", payload, f.stale)
       IN  Commit(notify(updateTradeStats(renderPositions(renderHeader(w))), "info"),
                  Take(inflight, "portfolio", i, ok), batches, phase, timers)

RefreshTradesDone(i, ok, payload) ==
    /\ i \in 1..Len(inflight["trades"])
    /\ inflight["trades"][i].cont = "refreshTrades"
    /\ LET f == inflight["trades"][i]
           w == Merge(Work("RefreshTradesDone", ~ok), "trades", "-", payload, f.stale)
       IN  Commit(notify(renderTrades(w), "info"), Take(inflight, "trades", i, ok),
                  batches, phase, timers)

RefreshTickerDone(i, ok, payload) ==
    /\ i \in 1..Len(inflight["symbols"])
    /\ inflight["symbols"][i].cont = "refreshTicker"
    /\ LET f == inflight["symbols"][i]
           w == Merge(Work("RefreshTickerDone", ~ok), "symbols", "-", payload, f.stale)
       IN  Commit(notify(renderMarketTicker(w), "info"), Take(inflight, "symbols", i, ok),
                  batches, phase, timers)

\* ------------------------------------------------------ specification
Slots == 1..(MaxPerCat + 1)

\* responses awaited by init and by loadInitialData
InitialResponse ==
    \E i \in Slots, ok \in BOOLEAN :
        \/ \E c \in Range(BatchCats) : \E p \in Payloads(c) :
              \/ BatchFetchDone(c, i, ok, p)
              \/ OrphanDone(c, i, ok, p)
        \/ InitialMarketDone(i, ok)
        \/ \E p \in RealTimePayloads : InitRealTimeDone(i, ok, p)

PollResponse ==
    \E i \in Slots, ok \in BOOLEAN :
        \/ \E p \in RealTimePayloads : RealTimeDone(i, ok, p)
        \/ \E p \in SymbolLists : TickerDone(i, ok, p)

Tick == RealTimeTick \/ TickerTick

SelectionClick ==
    \/ \E s \in SymbolIds : ClickSymbol(s) \/ ClickRow(s)
    \/ \E tf \in Timeframes : ClickTimeframe(tf)
    \/ ClickRefreshMarket

SelectionResponse ==
    \E i \in Slots, ok \in BOOLEAN :
        \/ SelectDone(i, ok)
        \/ TimeframeDone(i, ok)
        \/ RefreshMarketDone(i, ok)

RefreshClick ==
    \/ ClickRefreshSignals
    \/ ClickRefreshPortfolio
    \/ ClickRefreshTrades

RefreshResponse ==
    \E i \in Slots, ok \in BOOLEAN :
        \/ \E p \in ItemLists : RefreshSignalsDone(i, ok, p) \/ RefreshTradesDone(i, ok, p)
        \/ \E p \in PortfolioPayloads : RefreshPortfolioDone(i, ok, p)

TickerClick == ClickRefreshTicker

TickerResponse ==
    \E i \in Slots, ok \in BOOLEAN : \E p \in SymbolLists : RefreshTickerDone(i, ok, p)

Next ==
    \/ InitialResponse
    \/ Tick \/ PollResponse
    \/ SelectionClick \/ SelectionResponse
    \/ RefreshClick \/ RefreshResponse
    \/ TickerClick \/ TickerResponse
    \/ ClickRefreshAll

\* the whole page
Spec == Init /\ [][Next]_vars

\* The categories evolve independently, so the reachable states of Spec are
\* the product of what each part of the page can do, more than TLC can
\* enumerate.  The specifications below are Spec with the user confined to
\* one part of the page: same Init, same actions, a sub-disjunction of Next,
\* so each of their behaviours is a behaviour of Spec.

\* nobody clicks: init, then the two polling loops
PollNext == InitialResponse \/ Tick \/ PollResponse
PollSpec == Init /\ [][PollNext]_vars

\* The polling loops on their own, from the moment init has started the
\* timers, with what the platform guarantees: an interval timer keeps firing
\* and every fetch settles (it completes, fails or times out).  Two of the
\* states init can end in are taken as starting points: the initial load and
\* the first refreshRealTime all failed, or they all succeeded.
Started(d, sel, tf, v, failed) ==
    /\ data = d
    /\ selectedSymbol = sel
    /\ selectedTimeframe = tf
    /\ view = v
    /\ inflight = [c \in Cats |-> <<>>]
    /\ batches = [b \in 1..MaxBatches |-> Free]
    /\ phase = "running"
    /\ timers = [realTime |-> 1, ticker |-> 1]
    /\ loop = [realTime |-> "idle", ticker |-> "idle"]
    /\ last = [act |-> "InitRealTimeDone", failed |-> failed, uncaught |-> FALSE,
               raised |-> "none", dispatch |-> <<>>,
               rendered |-> IF failed THEN {} ELSE {"updateRealTimeUI"},
               drew |-> FALSE, notes |-> <<>>,
               slot |-> IF failed THEN "none" ELSE "realTime", stale |-> FALSE,
               issued |-> {}, change |-> NoChange]

StartedAfterFailure ==
    Started([portfolio |-> NoPortfolio, symbols |-> <<>>, signals |-> <<>>,
             trades |-> <<>>, market |-> [s \in SymbolIds |-> <<>>],
             realTime |-> NoRealTime],
            Null, "1h", [buttons |-> <<>>, rows |-> <<>>, chart |-> <<>>, signals |-> 0, trades |-> 0,
             hdrSym |-> Null, active |-> Null],
            TRUE)

StartedAfterSuccess ==
    Started([portfolio |-> [present |-> TRUE, positions |-> <<>>],
             symbols |-> <<SymRec("A"), SymRec("B")>>, signals |-> <<>>,
             trades |-> <<>>,
             market |-> [s \in SymbolIds |-> IF s = "A" THEN SeriesOf("A", "4h") ELSE <<>>],
             realTime |-> [present |-> TRUE]],
            "A", "4h",
            [buttons |-> <<"A", "B">>, rows |-> <<"A", "B">>, chart |-> SeriesOf("A", "4h"),
             signals |-> 0, trades |-> 0, hdrSym |-> "A", active |-> "A"],
            FALSE)

RunningInit == StartedAfterFailure \/ StartedAfterSuccess

RunningNext == Tick \/ PollResponse

RunningFairness ==
    /\ WF_vars(RealTimeTick)
    /\ WF_vars(TickerTick)
    /\ WF_vars(\E i \in Slots, ok \in BOOLEAN : \E p \in RealTimePayloads : RealTimeDone(i, ok, p))
    /\ WF_vars(\E i \in Slots, ok \in BOOLEAN : \E p \in SymbolLists : TickerDone(i, ok, p))

RunningSpec == RunningInit /\ [][RunningNext]_vars /\ RunningFairness

\* the user works the symbol list, the ticker rows, the timeframe chips and
\* the refresh-market / refresh-chart buttons
SelectionNext == InitialResponse \/ SelectionClick \/ SelectionResponse
SelectionSpec == Init /\ [][SelectionNext]_vars

\* the user works the refresh-signals, -portfolio and -trades buttons
RefreshNext == InitialResponse \/ RefreshClick \/ RefreshResponse
RefreshSpec == Init /\ [][RefreshNext]_vars

\* the user works the refresh-all button
ResyncNext == InitialResponse \/ ClickRefreshAll
ResyncSpec == Init /\ [][ResyncNext]_vars

\* The lists on display, from the state in which init has found the server
\* down: the user works the refresh-signals, -trades and -ticker buttons and
\* the server answers with lists longer than the page shows.
DisplayInit == StartedAfterFailure
DisplayNext ==
    \/ ClickRefreshSignals
    \/ ClickRefreshTrades
    \/ TickerClick
    \/ \E i \in Slots, ok \in BOOLEAN :
          \/ \E p \in LongLists : RefreshSignalsDone(i, ok, p) \/ RefreshTradesDone(i, ok, p)
          \/ \E p \in TickerLists : RefreshTickerDone(i, ok, p)
DisplaySpec == DisplayInit /\ [][DisplayNext]_vars

\* init on its own, every fetch settling (it completes, fails or times out)
StartupSpec == Init /\ [][InitialResponse]_vars /\ WF_vars(InitialResponse)

\* The candles of the selected symbol, from the state in which init has
\* loaded everything: the user works the symbol list, the ticker rows, the
\* timeframe chips and the refresh-market button, and the server answers
\* every candles request.
CandlesInit == StartedAfterSuccess
CandlesNext ==
    \/ SelectionClick
    \/ \E i \in Slots : SelectDone(i, TRUE) \/ TimeframeDone(i, TRUE) \/ RefreshMarketDone(i, TRUE)
CandlesSpec == CandlesInit /\ [][CandlesNext]_vars

\* The selection, from the state in which init has loaded everything: the
\* user works the symbol list, the ticker rows, the timeframe chips and the
\* refresh-market button, and a candles request may fail.
ClickSpec == StartedAfterSuccess /\ [][SelectionClick \/ SelectionResponse]_vars

\* ==================================================================
\* Properties
\* ==================================================================
Quiescent == Outstanding(inflight) = 0

OutstandingBy(c, cont) == Cardinality({j \in 1..Len(inflight[c]) : inflight[c][j].cont = cont})
OutstandingFor(s) ==
    Cardinality({j \in 1..Len(inflight["candles"]) : inflight["candles"][j].sym = s})

\* C1 (as claimed): responses are applied in request-issue order; no step
\* writes a category from a response to a fetch issued before the fetch
\* whose response the category already holds.
C1_IssueOrderApplied == ~last.stale

\* C2 (as claimed): a polling loop never overlaps itself; at most one fetch
\* of the real-time loop and at most one of the ticker loop is in flight.
C2_LoopNeverOverlaps ==
    OutstandingBy("realTime", "rt") <= 1 /\ OutstandingBy("symbols", "ticker") <= 1

\* C3 (as claimed): requests for the candles of a symbol are coalesced; at
\* most one network call for the candles of a symbol is outstanding.
C3_CandlesCoalesced == \A s \in SymbolIds : OutstandingFor(s) <= 1

\* C5 (as claimed): a failing fetch of a loadInitialData batch does not block
\* the categories that succeeded.  When the symbols fetch of a batch that
\* another fetch has failed succeeds, the list is merged, it is rendered in
\* the symbol selector and the ticker, and a non-empty list gets the
\* selection defaulted and the candles fetch issued.
C5_BatchFailureIsolated ==
    (last.act = "OrphanDone" /\ last.slot = "symbols")
        => /\ view.buttons = Ids(data.symbols)
           /\ view.rows = Ids(data.symbols)
           /\ Len(data.symbols) > 0 =>
                 (selectedSymbol # Null /\ "candles" \in last.issued)

\* C6 (as claimed): no quiescent state has a non-empty symbol list and an
\* unset selected symbol.
C6_SelectionDefaulted ==
    (Quiescent /\ Len(data.symbols) > 0) => selectedSymbol # Null

\* C8 (as claimed): no fragment renderer raises, whatever the store holds.
C8_RenderersNeverFail == last.raised = "none"

\* C9 (as claimed): a full dispatch that has started invokes every renderer
\* once, header first and chart last.
C9_FullDispatchCompletes == last.dispatch # <<>> => last.dispatch = FullDispatch

\* C4: a failed fetch never ends a polling loop.  After a cycle of the
\* real-time loop (of the ticker loop) whose fetch failed, the loop's timer
\* fires again and issues a new fetch.
C4_LoopSurvivesFailure ==
    /\ (last.act = "RealTimeDone" /\ last.failed)
          ~> (last.act = "RealTimeTick" /\ "realTime" \in last.issued)
    /\ (last.act = "TickerDone" /\ last.failed)
          ~> (last.act = "TickerTick" /\ "symbols" \in last.issued)

\* a tick of a loop whose last completed cycle failed has issued a fetch
C4_Witness ==
    \/ loop.realTime = "backoff" /\ last.act = "RealTimeTick" /\ "realTime" \in last.issued
    \/ loop.ticker = "backoff" /\ last.act = "TickerTick" /\ "symbols" \in last.issued

\* C7: a candles response is merged into the slot of the symbol it was
\* requested for and into no other slot, whatever symbol is selected when
\* it arrives; and whenever the chart is drawn, it is drawn from the slot
\* of the symbol selected at that moment.
C7_StaleCandlesBenign ==
    /\ [](last.drew => view.chart = data.market[selectedSymbol])
    /\ [][\A s \in SymbolIds : data'.market[s] # data.market[s] => last'.slot = s]_vars

\* the response for a symbol that is no longer the selected one has been
\* merged and the full dispatch that followed has drawn the chart
C7_Witness ==
    /\ last.act = "SelectDone"
    /\ ~last.failed
    /\ last.slot \in SymbolIds \ {selectedSymbol}
    /\ last.drew

C11_FailuresNotified ==
    (last.failed /\ last.act # "OrphanDone")
        => (~last.uncaught /\ "error" \in Range(last.notes))

\* C12: last-known-good data.  The step in which a failed response is
\* handled changes neither the store nor the selection: what the store
\* holds after it is what the fetch found when it was issued, plus the
\* merges of the fetches that completed meanwhile.  (A handler that sets the
\* selection does so before it issues its fetch.)
C12_LastKnownGood ==
    [][last'.failed => /\ data' = data
                       /\ selectedSymbol' = selectedSymbol
                       /\ selectedTimeframe' = selectedTimeframe]_vars

\* a fetch of a polling loop has failed and what the loop loaded earlier is
\* still in the store, next to a selection and its candles
C12_Witness ==
    /\ last.failed
    /\ \/ last.act = "RealTimeDone" /\ data.realTime.present
       \/ last.act = "TickerDone" /\ Len(data.symbols) > 0
    /\ selectedSymbol # Null
    /\ Len(data.market[selectedSymbol]) > 0

\* C13 (as claimed): the signals list and the trades list show at most 10
\* entries and the ticker feed shows at most 5 symbols.
C13_DisplayCaps ==
    /\ view.signals <= 10
    /\ view.trades <= 10
    /\ Len(view.rows) <= 5

RefreshDone == {"RefreshSignalsDone", "RefreshPortfolioDone", "RefreshTradesDone",
                "RefreshTickerDone"}

\* C14 (as claimed): merge idempotence.  When the response to a refresh click
\* carries a payload equal to the value the store already holds for the
\* category, the store is unchanged and no fragment is rendered.
C14_MergeIdempotent ==
    [][(last'.act \in RefreshDone /\ last'.slot # "none" /\ data' = data)
          => last'.rendered = {}]_vars

\* C15 (as claimed): whenever the chart is drawn, the change it displays is a
\* number, equal to (close of the last candle - open of the first) / open of
\* the first * 100 (here to the hundredth of a percent), styled negative
\* when below zero and positive otherwise; also for a first open of 0.
C15_ChartChangeDefined ==
    last.drew =>
        LET open == view.chart[1].open
            close == view.chart[Len(view.chart)].close
        IN  /\ last.change.kind = "number"
            /\ last.change.hundredths * open = (close - open) * 10000
            /\ last.change.style
                  = IF last.change.hundredths < 0 THEN "negative" ELSE "positive"

\* C16 (as claimed): whenever no candles fetch is outstanding (and all of them
\* succeeded), the series stored under the selected symbol, and the charted
\* one, is the server's series for the selected timeframe.
C16_SeriesOfSelectedTimeframe ==
    (Len(inflight["candles"]) = 0 /\ selectedSymbol # Null)
        => /\ data.market[selectedSymbol] = SeriesOf(selectedSymbol, selectedTimeframe)
           /\ view.chart = SeriesOf(selectedSymbol, selectedTimeframe)

\* the loadInitialData that init awaits has returned
InitialLoadFinished ==
    /\ \A b \in 1..MaxBatches : batches[b].owner # "init"
    /\ \A j \in 1..Len(inflight["candles"]) : inflight["candles"][j].owner # "init"

\* C17: polling start-up.  The listeners are installed and the timers are
\* started only once the initial load has returned, the timers only once
\* the listeners are installed and the first refreshRealTime has settled;
\* and, every fetch settling, both timers are eventually started, whatever
\* the outcome of the fetches.
C17_PollingStarts ==
    /\ [](ListenersInstalled => InitialLoadFinished)
    /\ []((timers.realTime > 0 \/ timers.ticker > 0)
             => (phase = "running" /\ OutstandingBy("realTime", "initRT") = 0))
    /\ <>(phase = "running" /\ timers.realTime = 1 /\ timers.ticker = 1)

\* the timers run although every fetch of init has failed
C17_Witness ==
    /\ phase = "running"
    /\ timers.realTime = 1 /\ timers.ticker = 1
    /\ last.act = "InitRealTimeDone" /\ last.failed
    /\ Quiescent
    /\ ~data.portfolio.present /\ data.symbols = <<>> /\ ~data.realTime.present

\* C18: the polling timers are created once.  There is never more than one
\* real-time timer nor more than one ticker timer, however often refresh-all
\* re-runs loadInitialData.
C18_TimersCreatedOnce == timers.realTime <= 1 /\ timers.ticker <= 1

\* a refresh-all issued while the timers run has completed
C18_Witness ==
    /\ timers.realTime = 1 /\ timers.ticker = 1
    /\ last.act \in {"BatchFetchDone", "InitialMarketDone"}
    /\ last.notes # <<>>
    /\ last.notes[Len(last.notes)] = "info"

\* C19 (as claimed): a selected symbol is always the identifier of one of the
\* symbols in the store's symbol list.
C19_SelectedIsListed ==
    selectedSymbol # Null => selectedSymbol \in Range(Ids(data.symbols))

\* C20 (as claimed): selection shown equals selection stored.  Whenever no
\* handler is in flight, the symbol the header displays and the button
\* marked active in the symbol list are the store's selected symbol.
C20_SelectionShown ==
    Quiescent => (view.hdrSym = selectedSymbol /\ view.active = selectedSymbol)

====
